---------------------------- MODULE Spec2Model ----------------------------
(***************************************************************************)
(* Model of the fairness engine of the carpool application                 *)
(* (src/src/App.tsx, function nextDriver, lines 75-110) and of the group   *)
(* page that calls it (GroupPage, lines 310-421, and AddRideDialog, lines  *)
(* 423-517).                                                               *)
(*                                                                         *)
(* Time.  An instant is new Date(x).getTime() counted in units of one      *)
(* 30-day month (1000*60*60*24*30 ms, line 90), so the epoch is 0, dates   *)
(* before 1970 are negative and the quotient of line 90 is an integer.     *)
(* Only valid dates are modelled (Ride.date is an ISO date, line 50).      *)
(*                                                                         *)
(* Numbers.  counts and weight are IEEE-754 binary floating point numbers. *)
(* A non-negative float is modelled by the integer number of quanta        *)
(* 2^-FracBits it holds; a float keeps PrecBits significant bits and every *)
(* operation rounds to nearest, ties to even, with gradual underflow to 0. *)
(* binary64 has 53 significant bits and a quantum of 2^-1074: the model    *)
(* keeps the arithmetic's laws (rounding, absorption, underflow) in a      *)
(* narrower format, so a weight underflows after fewer months than in      *)
(* binary64 (about 75 instead of about 8937).                              *)
(***************************************************************************)
EXTENDS Integers, Sequences, FiniteSets

VARIABLES present, history, clock, nowISO, now, result, pc, group, db, created,
          ignored

vars == <<present, history, clock, nowISO, now, result, pc, group, db, created,
          ignored>>

---------------------------------------------------------------------------
(* Bounds of the model *)

\* longest present list
MaxPresent == 3
\* longest ride history
MaxHist == 2
\* longest history of recent rides (the wall-clock runs)
MaxRecent == 3
\* months before the epoch of the oldest ride; also the latest reference time
Far == 100
\* first reading of the wall clock, in months after the epoch
ClockStart == 8
\* fraction bits of the float format (its quantum is 2^-FracBits)
FracBits == 8
\* significant bits of the float format
PrecBits == 8

Members == {"A", "B", "C"}

\* ride dates: long before the epoch, the epoch, and the last clock reading
Dates == {-Far, 0, ClockStart + 1}

\* the nowISO argument: <<>> when omitted, <<t>> when it parses to instant t
NowArgs == {<<>>, <<0>>, <<Far>>}

Null == "null"
Undefined == "undefined"

---------------------------------------------------------------------------
(* Types (lines 46-55) *)

\* a Ride, reduced to the two fields nextDriver reads
Ride == [date : Dates, driverId : Members]

\* the rides of the wall-clock runs: dated at the epoch or at the last
\* clock reading, driven by one of two members
RecentRide == [date : {0, ClockStart + 1}, driverId : {"A", "B"}]

SeqsUpTo(S, n) == UNION {[1..k -> S] : k \in 0..n}

Range(s) == {s[i] : i \in 1..Len(s)}

Max(a, b) == IF a >= b THEN a ELSE b

---------------------------------------------------------------------------
(* Floating point *)

\* 1.0 in quanta
One == 2^FracBits

\* the spacing of the floats around n, and never less than lo
RECURSIVE Ulp(_, _)
Ulp(n, lo) == IF n < (2^PrecBits) * lo THEN lo ELSE 2 * Ulp(n \div 2, lo)

\* n rounded to a multiple of u, to nearest, ties to even
RoundTo(n, u) ==
  LET q == n \div u
      r == n % u
  IN  IF 2 * r < u THEN q * u
      ELSE IF 2 * r > u THEN (q + 1) * u
      ELSE (q + (q % 2)) * u

\* the float nearest to the real number n (in quanta)
Round(n) == RoundTo(n, Ulp(n, 1))

\* a + b on floats
FAdd(a, b) == Round(a + b)

\* DECAY = 0.92 = DecayNum / DecayDen (line 87)
DecayNum == 23
DecayDen == 25

\* q * DECAY, truncated, on numbers carrying 16 guard bits below the quantum
MulDecay(q) == (q \div DecayDen) * DecayNum + ((q % DecayDen) * DecayNum) \div DecayDen

\* q * DECAY^n, n <= 16
RECURSIVE DecayBy(_, _)
DecayBy(q, n) == IF n = 0 THEN q ELSE MulDecay(DecayBy(q, n - 1))

\* DECAY^(16 * k) with 16 guard bits
RECURSIVE PowChunk(_)
PowChunk(k) ==
  IF k = 0 THEN One * 2^16
  ELSE LET c == PowChunk(k - 1) IN IF c = 0 THEN 0 ELSE DecayBy(c, 16)

\* DECAY^m with 16 guard bits, m >= 0
PowGuarded(m) ==
  LET c == PowChunk(m \div 16) IN IF c = 0 THEN 0 ELSE DecayBy(c, m % 16)

\* the months a ride can be old in this model
Ages == 0..(2 * Far + ClockStart + 4)

\* Math.pow(DECAY, m) for every age m, rounded once to the float format
PowTable ==
  [m \in Ages |-> LET q == PowGuarded(m) IN RoundTo(q, Ulp(q, 2^16)) \div 2^16]

\* Math.pow(DECAY, months) (line 91); DECAY^-m is 1 / DECAY^m
Pow(months) ==
  IF months >= 0 THEN PowTable[months]
  ELSE IF PowTable[-months] = 0 THEN One * One
  ELSE Round((One * One) \div PowTable[-months])

---------------------------------------------------------------------------
(* nextDriver (lines 75-110) *)

\* NowOf reading the wall clock whatever nowISO is
NowOfClock(arg, wallClock) == wallClock

\* now = nowISO ? new Date(nowISO) : new Date() (line 77)
NowOf(arg, wallClock) == IF Len(arg) > 0 THEN arg[1] ELSE wallClock

\* the two Maps after the init loop (lines 78-85): one entry per present ID
InitCounts(p) == [m \in Range(p) |-> 0]
InitLastDates(p) == [m \in Range(p) |-> 0]

\* Months without the Math.max(0, ...) clamp
MonthsUnclamped(t, d) == t - d

\* months = Math.max(0, (now - d) / MS_PER_MONTH) (line 90)
Months(t, d) == Max(0, t - d)

\* weight = Math.pow(DECAY, months) (lines 89-91)
Weight(t, r) == Pow(Months(t, r.date))

\* the count overwritten by the weight of the ride, not added to
RideStepOverwrite(maps, r, t) ==
  IF r.driverId \in DOMAIN maps.counts
  THEN [counts |-> [maps.counts EXCEPT ![r.driverId] = Weight(t, r)],
        lastDates |-> [maps.lastDates EXCEPT
                         ![r.driverId] = Max(@, r.date)]]
  ELSE maps

\* one iteration of the history loop (lines 88-96) on the pair of Maps
RideStep(maps, r, t) ==
  IF r.driverId \in DOMAIN maps.counts
  THEN [counts |-> [maps.counts EXCEPT
                      ![r.driverId] = FAdd(@, 1 * Weight(t, r))],
        lastDates |-> [maps.lastDates EXCEPT
                      ![r.driverId] = Max(@, r.date)]]
  ELSE maps

\* Accumulate leaving the loop at the first ride of an untracked driver
\* (break where the code skips)
RECURSIVE AccumulateBreak(_, _, _)
AccumulateBreak(maps, h, t) ==
  IF h = <<>> THEN maps
  ELSE IF Head(h).driverId \notin DOMAIN maps.counts THEN maps
  ELSE AccumulateBreak(RideStep(maps, Head(h), t), Tail(h), t)

\* the history loop (lines 88-96), first ride first
RECURSIVE Accumulate(_, _, _)
Accumulate(maps, h, t) ==
  IF h = <<>> THEN maps
  ELSE Accumulate(RideStep(maps, Head(h), t), Tail(h), t)

\* the rides of h, each repeated once per occurrence of its driver in p
RECURSIVE PerOccurrence(_, _)
PerOccurrence(p, h) ==
  IF h = <<>> THEN <<>>
  ELSE LET n == Cardinality({i \in 1..Len(p) : p[i] = Head(h).driverId})
       IN  [i \in 1..n |-> Head(h)] \o PerOccurrence(p, Tail(h))

\* Maps counting a ride once per occurrence of its driver in present
\* (counters kept per list entry instead of per ID)
MapsPerOccurrence(p, h, t) ==
  Accumulate([counts |-> InitCounts(p), lastDates |-> InitLastDates(p)],
             PerOccurrence(p, h), t)

\* the Maps the sort reads
Maps(p, h, t) ==
  Accumulate([counts |-> InitCounts(p), lastDates |-> InitLastDates(p)], h, t)

\* Compare ranking more weighted drives first
CompareDescending(a, b, maps) ==
  IF maps.counts[a] # maps.counts[b]
  THEN maps.counts[b] - maps.counts[a]
  ELSE maps.lastDates[a] - maps.lastDates[b]

\* the comparator of the sort (lines 99-107)
Compare(a, b, maps) ==
  IF maps.counts[a] # maps.counts[b]
  THEN maps.counts[a] - maps.counts[b]
  ELSE maps.lastDates[a] - maps.lastDates[b]

\* Insert putting x ahead of the elements it ties with (an unstable sort)
RECURSIVE InsertUnstable(_, _, _)
InsertUnstable(s, x, maps) ==
  IF s = <<>> THEN <<x>>
  ELSE IF Compare(Head(s), x, maps) >= 0 THEN <<x>> \o s
  ELSE <<Head(s)>> \o InsertUnstable(Tail(s), x, maps)

\* x put into the sorted sequence s behind every element that does not
\* compare greater than it: Array.prototype.sort is stable
RECURSIVE Insert(_, _, _)
Insert(s, x, maps) ==
  IF s = <<>> THEN <<x>>
  ELSE IF Compare(Head(s), x, maps) > 0 THEN <<x>> \o s
  ELSE <<Head(s)>> \o Insert(Tail(s), x, maps)

RECURSIVE SortFrom(_, _, _)
SortFrom(done, rest, maps) ==
  IF rest = <<>> THEN done
  ELSE SortFrom(Insert(done, Head(rest), maps), Tail(rest), maps)

\* sorted = [...present].sort(comparator) (lines 99-107)
Sorted(p, maps) == SortFrom(<<>>, p, maps)

\* PresentAfterSort when present.sort(...) runs on the argument itself
PresentSortedInPlace(p, maps) == Sorted(p, maps)

\* the array `present` after the sort ran on its copy (line 99)
PresentAfterSort(p, maps) == p

\* sorted[0] (line 109): undefined when the array is empty
First(s) == IF Len(s) = 0 THEN Undefined ELSE s[1]

\* NextDriver without the early return of line 76
NextDriverNoGuard(p, h, arg, wallClock) ==
  First(Sorted(p, Maps(p, h, NowOf(arg, wallClock))))

\* the value nextDriver returns (lines 75-110)
NextDriver(p, h, arg, wallClock) ==
  IF Len(p) = 0 THEN Null
  ELSE First(Sorted(p, Maps(p, h, NowOf(arg, wallClock))))

---------------------------------------------------------------------------
(* The calls *)
(*                                                                         *)
(* ignored is a history variable for the properties: the drivers of rides  *)
(* of the history that a call made so far has ignored (line 92), each of   *)
(* them absent from that call's present list.                              *)

\* the drivers of rides of h that a call on the list p ignores (line 92);
\* a call on an empty list returns before it reads a ride (line 76)
IgnoredDrivers(p, h) ==
  IF Len(p) = 0 THEN {}
  ELSE {h[i].driverId : i \in 1..Len(h)} \ Range(p)

Init ==
  /\ present \in SeqsUpTo(Members, MaxPresent)
  /\ history \in SeqsUpTo(Ride, MaxHist)
  /\ clock = ClockStart
  /\ nowISO = <<>>
  /\ now = ClockStart
  /\ result = Undefined
  /\ pc = "idle"
  /\ group = <<>>
  /\ db = <<>>
  /\ created = <<>>
  /\ ignored = {}

\* one call nextDriver({present, history, nowISO: arg})
Call(arg) ==
  /\ nowISO' = arg
  /\ now' = NowOf(arg, clock)
  /\ result' = NextDriver(present, history, arg, clock)
  /\ present' = IF Len(present) = 0 THEN present
                ELSE PresentAfterSort(present, Maps(present, history, NowOf(arg, clock)))
  /\ pc' = "returned"
  /\ ignored' = ignored \cup IgnoredDrivers(present, history)
  /\ UNCHANGED <<history, clock, group, db, created>>

Next == \E arg \in NowArgs : Call(arg)

\* calls on every present list and history, at one reading of the wall clock
Spec == Init /\ [][Next]_vars

\* the wall clock new Date() reads moves on between two calls
Tick ==
  /\ clock < ClockStart + 1
  /\ clock' = clock + 1
  /\ UNCHANGED <<present, history, nowISO, now, result, pc, group, db, created,
               ignored>>

\* histories of recent rides, for the calls the wall clock separates
InitRecent ==
  /\ present \in SeqsUpTo(Members, MaxPresent)
  /\ history \in SeqsUpTo(RecentRide, MaxRecent)
  /\ clock = ClockStart
  /\ nowISO = <<>>
  /\ now = ClockStart
  /\ result = Undefined
  /\ pc = "idle"
  /\ group = <<>>
  /\ db = <<>>
  /\ created = <<>>
  /\ ignored = {}

NextRecent == (\E arg \in NowArgs : Call(arg)) \/ Tick

SpecRecent == InitRecent /\ [][NextRecent]_vars

\* the caller passes another present list to its next call (line 334)
Select(p) ==
  /\ present' = p
  /\ result' = Undefined
  /\ pc' = "idle"
  /\ UNCHANGED <<history, clock, nowISO, now, group, db, created, ignored>>

InitAgain ==
  /\ present \in SeqsUpTo(Members, MaxPresent)
  /\ history \in SeqsUpTo(RecentRide, MaxHist)
  /\ clock = ClockStart
  /\ nowISO = <<>>
  /\ now = ClockStart
  /\ result = Undefined
  /\ pc = "idle"
  /\ group = <<>>
  /\ db = <<>>
  /\ created = <<>>
  /\ ignored = {}

NextAgain ==
  \/ \E arg \in NowArgs : Call(arg)
  \/ \E p \in SeqsUpTo(Members, MaxPresent) : Select(p)

\* calls over one history with one present list after another
SpecAgain == InitAgain /\ [][NextAgain]_vars

---------------------------------------------------------------------------
(* The group page (GroupPage, lines 310-421; AddRideDialog, lines 423-517) *)
(*                                                                         *)
(* present is the page's selection (line 313), history its rides state     *)
(* (line 312), result the memoised suggestedDriver (lines 333-335) and now *)
(* the wall-clock reading of its last computation.  group is <<>> while    *)
(* the group state is null (line 311) and <<ids>> once a snapshot has set  *)
(* it, ids being the member IDs of group.members in roster order (a        *)
(* missing members field reads like an empty one, lines 334 and 356).  db  *)
(* is the rides collection of the group and created the record of the last *)
(* addDoc of the dialog, <<>> before the first.                            *)

\* most rides the collection holds
MaxRides == 2

\* the members a group document may list
PageMembers == {"A", "B"}

\* the pseudo-member shown when the roster is empty (line 356)
Owner == "owner"

\* the dates typed in the dialog: the epoch and next month
PageDates == {0, ClockStart + 1}

\* sequences over S without a repeated element
DistinctSeqs(S) ==
  {s \in SeqsUpTo(S, Cardinality(S)) :
     \A i, j \in 1..Len(s) : s[i] = s[j] => i = j}

\* the members arrays of a group document
Rosters == DistinctSeqs(PageMembers)

\* the rides of the collection, reduced to the fields nextDriver reads
StoredRide == [date : PageDates, driverId : PageMembers]

\* every order of the elements of d
Perms(d) ==
  LET n == Len(d)
      bij == {f \in [1..n -> 1..n] : \A i, j \in 1..n : f[i] = f[j] => i = j}
  IN  {[i \in 1..n |-> d[f[i]]] : f \in bij}

\* the arrays arr.sort((a, b) => (a.date < b.date ? 1 : -1)) may leave
\* (lines 322-324): latest date first; the comparator never answers 0, so
\* the order of rides of equal date is the sort implementation's choice
SortedSnapshots(d) ==
  {h \in Perms(d) : \A i, j \in 1..Len(h) : i < j => h[i].date >= h[j].date}

\* the present argument of line 334 always taken from the roster
SuggestedArgsRosterOnly(p, g) == IF g = <<>> THEN <<>> ELSE g[1]

\* present.length ? present : (group?.members?.map((m) => m.id) || [])
SuggestedArgs(p, g) ==
  IF Len(p) # 0 THEN p
  ELSE IF g = <<>> THEN <<>> ELSE g[1]

\* the value of the useMemo of lines 333-335
SuggestedDriver(p, g, h, wallClock) ==
  NextDriver(SuggestedArgs(p, g), h, <<>>, wallClock)

\* the members the toggle buttons are rendered for (line 356)
Buttons(g) == IF Len(g[1]) # 0 THEN g[1] ELSE <<Owner>>

\* the updater of setPresent (line 360)
TogglePresent(prev, id) ==
  IF id \in Range(prev) THEN SelectSeq(prev, LAMBDA x : x # id)
  ELSE Append(prev, id)

\* a save button that is never disabled
SaveNeverDisabled(p) == FALSE

\* the part of the disabled attribute of line 487 that reads present
SaveDisabled(p) == Len(p) = 0

\* nextDriver({ present, history: [] }) || present[0]  (line 489)
ChosenDriver(p, h, wallClock) ==
  LET d == NextDriver(p, <<>>, <<>>, wallClock)
  IN  IF d = Null THEN First(p) ELSE d

InitPage ==
  /\ present = <<>>
  /\ history = <<>>
  /\ clock = ClockStart
  /\ nowISO = <<>>
  /\ now = ClockStart
  /\ result = Null
  /\ pc = "idle"
  /\ group = <<>>
  /\ db \in SeqsUpTo(StoredRide, MaxRides)
  /\ created = <<>>
  /\ ignored = {}

\* the group document's snapshot arrives (lines 316-319)
GroupSnapshot(ids) ==
  /\ group' = <<ids>>
  /\ now' = clock
  /\ result' = SuggestedDriver(present, <<ids>>, history, clock)
  /\ UNCHANGED <<present, history, clock, nowISO, pc, db, created, ignored>>

\* the rides collection's snapshot arrives (lines 320-326)
RidesSnapshot ==
  \E arr \in SortedSnapshots(db) :
    /\ history' = arr
    /\ now' = clock
    /\ result' = SuggestedDriver(present, group, arr, clock)
    /\ UNCHANGED <<present, clock, nowISO, pc, group, db, created, ignored>>

\* a click on the button of member id (lines 356-361)
Toggle(id) ==
  /\ group # <<>>
  /\ id \in Range(Buttons(group))
  /\ present' = TogglePresent(present, id)
  /\ now' = clock
  /\ result' = SuggestedDriver(present', group, history, clock)
  /\ UNCHANGED <<history, clock, nowISO, pc, group, db, created, ignored>>

\* a click on the save button of the dialog, its fields filled (lines 486-499)
SaveRide(date) ==
  /\ group # <<>>
  /\ ~SaveDisabled(present)
  /\ Len(db) < MaxRides
  /\ LET driverId == ChosenDriver(present, history, clock)
     IN  /\ created' = <<[date |-> date, participants |-> present,
                          driverId |-> driverId]>>
         /\ db' = Append(db, [date |-> date, driverId |-> driverId])
  /\ UNCHANGED <<present, history, clock, nowISO, now, result, pc, group,
               ignored>>

NextPage ==
  \/ \E ids \in Rosters : GroupSnapshot(ids)
  \/ RidesSnapshot
  \/ \E id \in PageMembers \cup {Owner} : Toggle(id)
  \/ \E date \in PageDates : SaveRide(date)

SpecPage == InitPage /\ [][NextPage]_vars

---------------------------------------------------------------------------
(* What the properties speak of, read off the history and not off the Maps *)

\* the rides of the history that m drove, in history order
DrivesOf(m) == SelectSeq(history, LAMBDA r : r.driverId = m)

RECURSIVE SumWeights(_, _)
SumWeights(acc, h) ==
  IF h = <<>> THEN acc ELSE SumWeights(FAdd(acc, Weight(now, Head(h))), Tail(h))

\* the weighted drive count of m: the sum of DECAY^elapsedMonths over the
\* rides m drove, at the reference time of the last call
WeightedCount(m) == SumWeights(0, DrivesOf(m))

\* the last-drive instant of m: the latest date of the rides m drove,
\* epoch-zero if m drove none
LastDriveInstant(m) ==
  LET d == {r.date : r \in Range(DrivesOf(m))}
  IN  IF d = {} THEN 0 ELSE CHOOSE x \in d : \A y \in d : y <= x

\* the index of the first occurrence of m in present
FirstIndex(m) == CHOOSE i \in 1..Len(present) :
                   present[i] = m /\ \A j \in 1..(i - 1) : present[j] # m

\* p with every repeated occurrence after the first removed
RECURSIVE Dedup(_)
Dedup(p) ==
  IF p = <<>> THEN <<>>
  ELSE LET front == Dedup(SubSeq(p, 1, Len(p) - 1))
       IN  IF p[Len(p)] \in Range(front) THEN front
           ELSE Append(front, p[Len(p)])

\* the Maps of the last call
CallMaps == Maps(present, history, now)

Returned == pc = "returned"

---------------------------------------------------------------------------
(* C1: a call with an empty present list returns null, whatever the        *)
(* history and the reference time.                                         *)
C1_EmptyPresentReturnsNull ==
  (Returned /\ present = <<>>) => result = Null

C1_Witness ==
  Returned /\ present = <<>> /\ Len(history) = MaxHist /\ nowISO # <<>>

(* C2: for a non-empty present list the result is an element of present    *)
(* and no member of present has a smaller weighted drive count.            *)
C2_ResultHasMinimalCount ==
  (Returned /\ present # <<>>) =>
    /\ result \in Range(present)
    /\ LET count == WeightedCount(result)
       IN  \A m \in Range(present) : count <= WeightedCount(m)

C2_Witness ==
  /\ Returned
  /\ result \in Range(present)
  /\ WeightedCount(result) > 0
  /\ \E m \in Range(present) : WeightedCount(result) < WeightedCount(m)

(* C3: among the present members that share the minimal weighted drive     *)
(* count, the one returned has the earliest last-drive instant: no member  *)
(* with the same count and an earlier last-drive instant is passed over.   *)
(* Stated for the members that drove at least one ride, whose last-drive   *)
(* instant is a date of the history and not the never-driven mark.         *)
C3_TieGoesToEarliestLastDrive ==
  (Returned /\ present # <<>> /\ result \in Range(present)) =>
    \A m \in Range(present) :
      ( /\ DrivesOf(m) # <<>>
        /\ DrivesOf(result) # <<>>
        /\ WeightedCount(m) = WeightedCount(result) )
      => LastDriveInstant(result) <= LastDriveInstant(m)

(* C4: members with the same weighted drive count and the same last-drive  *)
(* instant keep their input order, so the result is the one that occurs    *)
(* first in present; with an empty history the result is present[0].       *)
C4_TiesKeepInputOrder ==
  (Returned /\ present # <<>>) =>
    LET first == FirstIndex(result)
        count == WeightedCount(result)
        last == LastDriveInstant(result)
        maps == CallMaps
    IN  /\ \A i \in 1..Len(present) :
             ( /\ WeightedCount(present[i]) = count
               /\ LastDriveInstant(present[i]) = last )
             => first <= i
        /\ \A i \in 1..Len(present) :
             ( /\ maps.counts[present[i]] = maps.counts[result]
               /\ maps.lastDates[present[i]] = maps.lastDates[result] )
             => first <= i
        /\ history = <<>> => result = present[1]

C4_Witness ==
  /\ Returned
  /\ history # <<>>
  /\ WeightedCount(result) > 0
  /\ \E i \in 2..Len(present) :
       /\ present[i] # result
       /\ WeightedCount(present[i]) = WeightedCount(result)
       /\ LastDriveInstant(present[i]) = LastDriveInstant(result)

\* exactly one present member drove no ride of the history
OnlyZeroDriver(z) ==
  /\ z \in Range(present)
  /\ DrivesOf(z) = <<>>
  /\ \A m \in Range(present) \ {z} : DrivesOf(m) # <<>>

(* C5: when exactly one present member drove no ride and every other       *)
(* present member drove at least one, that member is returned, whatever    *)
(* the dates of the rides and the reference time.                          *)
C5_OnlyZeroDriverIsSelected ==
  \A z \in Members :
    (Returned /\ OnlyZeroDriver(z) /\ Cardinality(Range(present)) > 1)
      => result = z

(* C6: with present [X, Y] in either order and a history of exactly one    *)
(* ride driven by X and one driven by Y, both dated at or before the       *)
(* reference time, X's ride being strictly older makes X's weighted drive  *)
(* count strictly smaller than Y's and makes X the result.                 *)
C6_OlderSoleDriveWeighsLess ==
  \A x, y \in Members :
    ( /\ Returned
      /\ x # y
      /\ present \in {<<x, y>>, <<y, x>>}
      /\ Len(history) = 2
      /\ Len(DrivesOf(x)) = 1
      /\ Len(DrivesOf(y)) = 1
      /\ DrivesOf(x)[1].date <= now
      /\ DrivesOf(y)[1].date <= now
      /\ DrivesOf(x)[1].date < DrivesOf(y)[1].date )
    => (WeightedCount(x) < WeightedCount(y) /\ result = x)

(* C7: a ride dated after the reference time weighs exactly 1, as a ride   *)
(* dated at the reference time does; no ride weighs more than 1 or less    *)
(* than 0; a member whose rides are all dated at or after the reference    *)
(* time has a weighted drive count of exactly the number of those rides.   *)
C7_FutureRideWeighsOne ==
  Returned =>
    /\ \A i \in 1..Len(history) :
         LET w == Weight(now, history[i])
         IN  /\ w >= 0
             /\ w <= One
             /\ history[i].date >= now => w = One
    /\ LET maps == CallMaps
       IN  \A m \in Range(present) :
             (\A r \in Range(DrivesOf(m)) : r.date >= now)
               => maps.counts[m] = Len(DrivesOf(m)) * One

C7_Witness ==
  /\ Returned
  /\ \E i \in 1..Len(history) :
       /\ history[i].date > now
       /\ history[i].driverId \in Range(present)
       /\ CallMaps.counts[history[i].driverId] = Len(DrivesOf(history[i].driverId)) * One

\* the history without the rides whose driver is not in present
TrackedRides == SelectSeq(history, LAMBDA r : r.driverId \in Range(present))

(* C8: the rides whose driver is not in present change neither the         *)
(* weighted drive count nor the last-drive instant of a present member nor *)
(* the result: the call gives what it gives on the history without them.   *)
C8_UntrackedRidesAreIgnored ==
  Returned =>
    /\ Maps(present, history, now) = Maps(present, TrackedRides, now)
    /\ result = NextDriver(present, TrackedRides, <<now>>, clock)
    /\ result # Undefined

C8_Witness ==
  /\ Returned
  /\ Cardinality(Range(present)) > 1
  /\ Len(history) = 2
  /\ history[1].driverId \notin Range(present)
  /\ Weight(now, history[1]) > 0
  /\ history[2].driverId \in Range(present)
  /\ Weight(now, history[2]) > 0
  /\ result # history[2].driverId

(* C9: duplicate IDs in present count as one: every ride is added once to  *)
(* its driver's weighted drive count, and the result is the result for     *)
(* present with every repeated occurrence after the first removed.         *)
C9_DuplicatesAreASet ==
  Returned =>
    /\ LET maps == CallMaps
       IN  \A m \in Range(present) : maps.counts[m] = WeightedCount(m)
    /\ result = NextDriver(Dedup(present), history, <<now>>, clock)

C9_Witness ==
  /\ Returned
  /\ Len(present) > Cardinality(Range(present))
  /\ Cardinality(Range(present)) > 1
  /\ \E i \in 1..Len(history) :
       /\ Len(SelectSeq(present, LAMBDA m : m = history[i].driverId)) > 1
       /\ Weight(now, history[i]) > 0

\* a step that is one call of nextDriver
CallStep == clock' = clock /\ pc' = "returned"

(* C10 as stated: a call leaves present and history unchanged, and two     *)
(* calls with identical present, history and nowISO return the identical   *)
(* result.                                                                 *)
C10_PureForIdenticalNowISO ==
  [][CallStep =>
       /\ present' = present
       /\ history' = history
       /\ (Returned /\ nowISO' = nowISO) => result' = result]_vars

(* C10 amended: a call leaves present and history unchanged, and two calls *)
(* with identical present, history and a supplied nowISO return the        *)
(* identical result.                                                       *)
C10_PureForSuppliedNowISO ==
  [][CallStep =>
       /\ present' = present
       /\ history' = history
       /\ (Returned /\ nowISO' = nowISO /\ nowISO' # <<>>) => result' = result]_vars

C10_Witness ==
  /\ Returned
  /\ nowISO # <<>>
  /\ clock = ClockStart + 1
  /\ Sorted(present, CallMaps) # present
  /\ NextDriver(present, history, <<>>, ClockStart)
       # NextDriver(present, history, <<>>, ClockStart + 1)

---------------------------------------------------------------------------
(* What the properties of the group page speak of *)

\* a step of the dialog that adds a ride record to the collection
SaveStep == db' # db

\* the member IDs of the roster the page holds, none before it is loaded
Roster == IF group = <<>> THEN <<>> ELSE group[1]

\* the record the last save created
LastCreated == created[1]

---------------------------------------------------------------------------
(* C11: the driverId the add-ride dialog persists on a new ride record is  *)
(* the driver the engine selects for the present selection and the rides   *)
(* of the group the page holds at the click, which is the suggested driver *)
(* the page displays for that selection.                                   *)
C11_PersistedDriverIsSuggested ==
  [][SaveStep =>
       /\ created'[1].driverId = NextDriver(present, history, <<>>, clock)
       /\ created'[1].driverId = result]_vars

---------------------------------------------------------------------------
(* C12: the suggested driver of the group page is the engine's result over *)
(* exactly the selected members when at least one is selected, and over    *)
(* the member IDs of the roster, in roster order, when none is; it is null *)
(* only when none is selected and the roster is empty or not yet loaded.   *)
C12_SuggestionOverSelectionOrRoster ==
  /\ Len(present) # 0 => result = NextDriver(present, history, <<>>, now)
  /\ (Len(present) = 0 /\ group # <<>>) =>
       result = NextDriver(group[1], history, <<>>, now)
  /\ result = Null <=>
       (Len(present) = 0 /\ (group = <<>> \/ group[1] = <<>>))

\* none selected, a loaded roster of two whose first member drove the one
\* ride: the roster's second member is suggested
C12_Witness ==
  /\ Len(present) = 0
  /\ group # <<>> /\ Len(group[1]) = 2
  /\ Len(history) = 1
  /\ result = group[1][2]

---------------------------------------------------------------------------
(* C13: the result of a call does not depend on the order of the rides in  *)
(* the history: every history that is a permutation of the call's gives    *)
(* every present member the same weighted drive count and the same         *)
(* last-drive instant, and gives the same selected driver.                 *)
C13_HistoryOrderIsIrrelevant ==
  Returned =>
    \A h \in Perms(history) :
      /\ Maps(present, h, now) = CallMaps
      /\ NextDriver(present, h, <<now>>, clock) = result

---------------------------------------------------------------------------
(* C14: every ride record the add-ride dialog creates has a non-empty      *)
(* participants list and a defined, non-null driverId that is one of its   *)
(* participants; a click on save with an empty selection creates no ride.  *)
C14_CreatedRideHasDriverAmongParticipants ==
  /\ [](created # <<>> =>
          /\ Len(LastCreated.participants) # 0
          /\ LastCreated.driverId \notin {Null, Undefined}
          /\ LastCreated.driverId \in Range(LastCreated.participants))
  /\ [][SaveStep => created'[1].participants = present]_vars
  /\ [][Len(present) = 0 => ~SaveStep]_vars

\* a ride saved with two participants, driven by the first of them
C14_Witness ==
  /\ created # <<>>
  /\ Len(LastCreated.participants) = 2
  /\ LastCreated.driverId = LastCreated.participants[1]
  /\ Len(db) = MaxRides

---------------------------------------------------------------------------
(* C15: in every reachable state of the group page, after any interleaving *)
(* of member toggles and group snapshots, the present selection holds no   *)
(* ID twice and every ID in it is the ID of a member of the group's        *)
(* current roster.                                                         *)
C15_PresentIsDuplicateFreeSubsetOfRoster ==
  /\ \A i, j \in 1..Len(present) : present[i] = present[j] => i = j
  /\ Range(present) \subseteq Range(Roster)

---------------------------------------------------------------------------
(* C16 as stated: a member whose rides a call has ignored because the      *)
(* member was absent has a weighted drive count of zero from then on: in a *)
(* later call over the same history in which the member is present again,  *)
(* the rides the member drove do not count.                                *)
C16_AbsenceResetsCountForever ==
  Returned =>
    \A m \in ignored \cap Range(present) : CallMaps.counts[m] = 0

(* C16 amended: the rides of an absent member are ignored in that call     *)
(* only.  A call keeps nothing of the calls before it: in a later call     *)
(* over the same history in which the member is present again, every ride  *)
(* the member drove counts, and the count is the sum of the weights of     *)
(* all those rides at the reference time of that call.                     *)
C16_AbsenceIsForgottenByTheNextCall ==
  Returned =>
    /\ \A m \in ignored \cap Range(present) :
         CallMaps.counts[m] = WeightedCount(m)
    /\ result = NextDriver(present, history, <<now>>, clock)

\* a member who drove two rides, absent from an earlier call and present
\* in this one, with a count above zero
C16_Witness ==
  /\ Returned
  /\ \E m \in ignored \cap Range(present) :
       /\ Len(DrivesOf(m)) = 2
       /\ CallMaps.counts[m] > One

=============================================================================
